---- MODULE Spec2Model ----
(***************************************************************************)
(* Model of the two agent loops of learning-space-code/C2:                 *)
(*   main.py          ReActAgent (run, _parse_output, _parse_action)       *)
(*   plan-executor.py Planner, Executor, PlanAndSolveAgent                 *)
(* Texts are sequences of one-character strings, so that the regular       *)
(* expressions and string operations of the code are computed character    *)
(* by character.                                                           *)
(***************************************************************************)
EXTENDS Integers, Sequences, FiniteSets, TLC

\* ------------------------------------------------------------------ bounds

\* largest step budget (maxSteps) a ReActAgent is constructed with
MaxSteps == 3
\* number of run calls made on one agent instance
MaxRuns == 2

\* ------------------------------------------------------------- characters

\* Python's None (the no-result sentinel of think, the "no match" of the parsers)
None == <<"None">>

\* characters str.strip() removes, among those of the modelled texts
Whitespace == {" ", "\n"}

\* characters the regular expression class \w matches, among those of the modelled texts
WordChars ==
    {"a", "c", "d", "e", "g", "h", "i", "n", "o", "q", "s", "t", "u", "x",
     "A", "F", "T", "_"}

\* the literal "Thought: " of the pattern in _parse_output
ThoughtKw == <<"T", "h", "o", "u", "g", "h", "t", ":", " ">>
\* the literal "Action: " of the pattern in _parse_output and of the history entry
ActionKw == <<"A", "c", "t", "i", "o", "n", ":", " ">>
\* the literal "Finish" of startswith and of the Finish pattern
FinishKw == <<"F", "i", "n", "i", "s", "h">>
\* the literal "Observation: " of the history entry
ObservationKw == <<"O", "b", "s", "e", "r", "v", "a", "t", "i", "o", "n", ":", " ">>

\* ---------------------------------------------------------- string helpers

\* text[i:] begins with pat (i is 1-based)
MatchAt(pat, text, i) ==
    /\ i >= 1
    /\ i + Len(pat) - 1 <= Len(text)
    /\ SubSeq(text, i, i + Len(pat) - 1) = pat

\* str.startswith
StartsWith(text, pat) == MatchAt(pat, text, 1)

\* position of the first occurrence of pat in text, 0 when there is none
Find(pat, text) ==
    LET hits == {i \in 1..Len(text) : MatchAt(pat, text, i)}
    IN  IF hits = {} THEN 0 ELSE CHOOSE i \in hits : \A j \in hits : i <= j

\* str.strip(): leading and trailing whitespace removed
Strip(text) ==
    LET keep == {i \in 1..Len(text) : text[i] \notin Whitespace}
    IN  IF keep = {} THEN <<>>
        ELSE LET lo == CHOOSE i \in keep : \A j \in keep : i <= j
                 hi == CHOOSE i \in keep : \A j \in keep : i >= j
             IN  SubSeq(text, lo, hi)

\* what "(.*)" matches from position i on: "." matches any character but the
\* newline, and the star is greedy, so it runs to the end of the line
RestOfLine(text, i) ==
    LET nls == {j \in i..Len(text) : text[j] = "\n"}
        stop == IF nls = {} THEN Len(text) + 1
                ELSE CHOOSE j \in nls : \A k \in nls : j <= k
    IN  SubSeq(text, i, stop - 1)

\* group(1) of re.search(kw + "(.*)", text), stripped; None when there is no match
SearchField(kw, text) ==
    LET i == Find(kw, text)
    IN  IF i = 0 THEN None ELSE Strip(RestOfLine(text, i + Len(kw)))

\* group(1) of "\[(.*)\]" matched at position i of text: "[" at i, then the
\* greedy "(.*)" up to the last "]" of the line; None when there is no match
Bracketed(text, i) ==
    LET line == RestOfLine(text, i + 1)
        closes == {j \in 1..Len(line) : line[j] = "]"}
    IN  IF ~MatchAt(<<"[">>, text, i) \/ closes = {} THEN None
        ELSE LET last == CHOOSE j \in closes : \A k \in closes : j >= k
             IN  SubSeq(line, 1, last - 1)

\* "\n".join(parts)
RECURSIVE JoinLines(_)
JoinLines(parts) ==
    IF parts = <<>> THEN <<>>
    ELSE IF Len(parts) = 1 THEN parts[1]
    ELSE parts[1] \o <<"\n">> \o JoinLines(Tail(parts))

\* Python truthiness of a str-or-None value: "not v"
Falsy(v) == v = None \/ v = <<>>

\* ------------------------------------------------------------ output parser

\* ReActAgent._parse_output: the thought and the action of a response, each the
\* stripped group of the first match of its pattern, None when the pattern has none
ParseOutputThought(text) == SearchField(ThoughtKw, text)

ParseOutputAction(text) == SearchField(ActionKw, text)

\* FinishAnswer with a lazy group: the payload ends at the first "]"
FinishAnswerFirstClose(action) ==
    LET closes == {j \in 1..Len(action) : action[j] = "]"}
    IN  IF ~StartsWith(action, FinishKw \o <<"[">>) \/ closes = {} THEN None
        ELSE SubSeq(action, Len(FinishKw) + 2,
                    (CHOOSE j \in closes : \A k \in closes : j <= k) - 1)

\* re.match(r"Finish\[(.*)\]", action) of run: its group(1), None when there is
\* no match (the code then takes .group of None)
FinishAnswer(action) ==
    IF StartsWith(action, FinishKw) THEN Bracketed(action, Len(FinishKw) + 1)
    ELSE None

\* length of the longest prefix of word characters: what the greedy "(\w+)" takes
\* (no shorter prefix can be followed by "[", which is not a word character)
WordPrefixLen(text) ==
    LET stops == {i \in 1..Len(text) : text[i] \notin WordChars}
    IN  IF stops = {} THEN Len(text)
        ELSE (CHOOSE i \in stops : \A j \in stops : i <= j) - 1

\* ReActAgent._parse_action: <<tool name, tool input>>, <<None, None>> when the
\* action does not match "(\w+)\[(.*)\]"
ParseAction(action_text) ==
    LET n == WordPrefixLen(action_text)
        input == Bracketed(action_text, n + 1)
    IN  IF n = 0 \/ input = None THEN <<None, None>>
        ELSE <<SubSeq(action_text, 1, n), input>>

\* ------------------------------------------------------------ tool registry

\* names registered in the ToolExecutor the agent is constructed with
RegisteredTools == {<<"s">>}

\* ToolExecutor.getTool: the registered callable (named by its tool), None when
\* the name is not registered
GetTool(name) == IF name \in RegisteredTools THEN name ELSE None

\* ToolExecutor.getAvailableTools: the listing rendered into the prompt
GetAvailableTools == <<"s", ":", " ", "d">>

\* what a registered tool can return for an input
Observations == {<<"o">>, <<"o", "]">>}

\* the fixed error observation of an unknown tool, which names the tool
NotFoundObservation(tool_name) == <<"n", "o", " ", "'">> \o tool_name \o <<"'">>

\* ------------------------------------------------------- model responses

\* what may precede the Action part of a response
Prefixes ==
    { <<>>,
      ThoughtKw \o <<"t", "\n">>,
      <<"x", " ">> }

\* action texts a response may carry after "Action: "
ActionBodies ==
    { FinishKw \o <<"[", "a", "]">>,
      FinishKw \o <<"[", " ", "a", " ", "]">>,
      FinishKw \o <<"[", "s", "[", "q", "]", "]">>,
      FinishKw \o <<"[", "a", "]", " ", "x", "]", " ">>,
      FinishKw \o <<"[", "]">>,
      FinishKw,
      FinishKw \o <<"e", "d", "[", "a", "]">>,
      <<"s", "[", "q", "]">>,
      <<"s", "[", "q", "]", " ">>,
      <<"u", "[", "q", "]">>,
      <<"s", "[", "]">>,
      <<"s">>,
      <<"[", "q", "]">>,
      <<" ">> }

\* the Action part of a response: none, "Action: " and a body, or "Action:"
\* with no space after the colon
ActionParts ==
    {<<>>}
    \cup {ActionKw \o b : b \in ActionBodies}
    \cup {<<"A", "c", "t", "i", "o", "n", ":", "s", "[", "q", "]">>}

\* what may follow a first Action line: a second Action line
SecondActionLine == <<"\n">> \o ActionKw \o <<"u", "[", "q", "]">>

\* the texts HelloAgentsLLM.think may return (the empty text included): a
\* prefix and an Action part, and such texts followed by a second Action line
ResponseTexts ==
    {p \o a : p \in Prefixes, a \in ActionParts}
    \cup {p \o a \o SecondActionLine :
            p \in Prefixes,
            a \in {<<>>,
                   ActionKw \o <<"s", "[", "q", "]">>,
                   ActionKw \o FinishKw \o <<"[", "a", "]">>,
                   ActionKw \o <<"s">>}}

\* every result of HelloAgentsLLM.think: a text, or None
ThinkResults == ResponseTexts \cup {None}

\* questions a run is called with
Questions == {<<"q">>, <<"w">>}

\* ------------------------------------------------------------- ReActAgent

VARIABLES
    pc,             \* where the agent is: "idle", "loop" (inside run's while), "returned", "raised"
    runs,           \* number of run calls made on the instance
    maxSteps,       \* self.maxSteps
    question,       \* run's argument
    history,        \* self.history
    current_step,   \* run's local current_step
    messages,       \* the message list of the last think call of this run
    response_text,  \* run's local response_text
    thought,        \* run's local thought
    action,         \* run's local action
    ret,            \* what the last run returned
    took,           \* the branch of the loop body the last iteration took
    n_think,        \* think calls made in this run
    tool_calls,     \* <<tool name, tool input>> of every tool invoked in this run
    stale           \* whether self.history held entries when the current run was called

reactVars ==
    <<pc, runs, maxSteps, question, history, current_step, messages,
      response_text, thought, action, ret, took, n_think, tool_calls, stale>>

\* Executor and PlanAndSolveAgent
VARIABLES
    ps_pc,          \* "idle", "executing" (inside execute's for loop), "returned", "raised"
    ps_caller,      \* who called execute: "agent" (PlanAndSolveAgent.run) or "direct"
    ps_question,    \* the question
    planner_text,   \* Planner.plan's local response_text
    plan,           \* the plan handed to execute
    exec_i,         \* plan items execute has gone through
    exec_history,   \* execute's local history
    exec_response,  \* execute's local response_text (None while unbound)
    exec_prompts,   \* the prompt of every think call execute made
    exec_results,   \* what every think call of execute returned
    final_answer,   \* what execute returned
    ps_ret          \* what the call (run, or execute called directly) returned

planVars ==
    <<ps_pc, ps_caller, ps_question, planner_text, plan, exec_i, exec_history,
      exec_response, exec_prompts, exec_results, final_answer, ps_ret>>

\* HelloAgentsLLM.__init__
VARIABLES
    c_pc,             \* "idle", "constructed", "raised" (ValueError left __init__)
    c_args,           \* the arguments of the call
    c_env,            \* the environment the call read
    c_error,          \* which statement raised: "none", "int" (line 40), "config" (line 43)
    self_model,       \* self.model
    client_api_key,   \* api_key, base_url and timeout the OpenAI client was made with
    client_base_url,
    client_timeout

ctorVars ==
    <<c_pc, c_args, c_env, c_error, self_model, client_api_key, client_base_url,
      client_timeout>>

\* HelloAgentsLLM.think
VARIABLES
    t_pc,               \* "idle", "request" (inside create), "streaming", "returned"
    collected_content,  \* think's local list
    t_received,         \* delta.content of every chunk the for loop took, in order
    t_failure,          \* what failed in this call: "none", "request", "stream", "chunk"
    t_ret               \* what think returned

thinkVars == <<t_pc, collected_content, t_received, t_failure, t_ret>>

llmVars == <<ctorVars, thinkVars>>

\* HistoryAtEntry without the reset
HistoryAtEntryKept(h) == h

\* self.history after the first statement of run: "self.history = []"
HistoryAtEntry(h) == <<>>

\* the entry of run: history reset, current_step = 0
Run(q) ==
    /\ pc \in {"idle", "returned", "raised"}
    /\ runs < MaxRuns
    /\ pc' = "loop"
    /\ runs' = runs + 1
    /\ question' = q
    /\ history' = HistoryAtEntry(history)
    /\ stale' = (history # <<>>)
    /\ current_step' = 0
    /\ messages' = <<>>
    /\ response_text' = None
    /\ thought' = None
    /\ action' = None
    /\ ret' = None
    /\ took' = "none"
    /\ n_think' = 0
    /\ tool_calls' = <<>>
    /\ UNCHANGED <<maxSteps, planVars, llmVars>>

\* the prompt of a step: the template filled with the tool listing, the question
\* and the joined history
RenderPrompt(tools, q, h) ==
    [tools |-> tools, question |-> q, history |-> JoinLines(h)]

\* BuildMessages that leaves the history out of the prompt
BuildMessagesNoHistory(q, h) ==
    << [role |-> "user", content |-> RenderPrompt(GetAvailableTools, q, <<>>)] >>

\* the message list handed to think: one user message holding the prompt
BuildMessages(q, h) ==
    << [role |-> "user", content |-> RenderPrompt(GetAvailableTools, q, h)] >>

\* NoResponseBranch with "continue" in place of "break"
NoResponseContinues ==
    /\ pc' = "loop"
    /\ took' = "no_response"
    /\ UNCHANGED <<ret, history, tool_calls>>

\* "if not response_text: break", and the return None after the loop
NoResponseBranch ==
    /\ pc' = "returned"
    /\ ret' = None
    /\ took' = "no_response"
    /\ UNCHANGED <<history, tool_calls>>

\* NoActionBranch that returns the model's text
NoActionReturnsText ==
    /\ pc' = "returned"
    /\ ret' = response_text'
    /\ took' = "no_action"
    /\ UNCHANGED <<history, tool_calls>>

\* "if not action: break", and the return None after the loop
NoActionBranch ==
    /\ pc' = "returned"
    /\ ret' = None
    /\ took' = "no_action"
    /\ UNCHANGED <<history, tool_calls>>

\* the Finish branch: the answer is group(1) of the Finish pattern; with no match
\* .group is taken of None and AttributeError leaves run
FinishBranch(act) ==
    /\ IF FinishAnswer(act) = None
       THEN pc' = "raised" /\ ret' = None /\ took' = "finish_raised"
       ELSE pc' = "returned" /\ ret' = FinishAnswer(act) /\ took' = "finish"
    /\ UNCHANGED <<history, tool_calls>>

\* SkipTest that looks at the tool name only
SkipTestNameOnly(tool_name, tool_input) == Falsy(tool_name)

\* the test of the skip: "not tool_name or not tool_input"
SkipTest(tool_name, tool_input) == Falsy(tool_name) \/ Falsy(tool_input)

\* SkipBranch with "break" in place of "continue"
SkipBreaks ==
    /\ pc' = "returned"
    /\ ret' = None
    /\ took' = "skip"
    /\ UNCHANGED <<history, tool_calls>>

\* "if not tool_name or not tool_input: continue"
SkipBranch ==
    /\ pc' = "loop"
    /\ took' = "skip"
    /\ UNCHANGED <<ret, history, tool_calls>>

\* HistoryAfterDispatch with the two appends outside the else branch
HistoryAfterDispatchAlways(h, act, found, observation) ==
    h \o <<ActionKw \o act, ObservationKw \o observation>>

\* the history after a dispatch: the two entries are appended in the else branch
\* of "if not tool_function" only
HistoryAfterDispatch(h, act, found, observation) ==
    IF found THEN h \o <<ActionKw \o act, ObservationKw \o observation>>
    ELSE h

\* the tool lookup and call; a registered tool returns one of its observations
DispatchBranch(act, tool_name, tool_input) ==
    LET tool_function == GetTool(tool_name)
        found == tool_function # None
    IN  \E observation \in (IF found THEN Observations
                             ELSE {NotFoundObservation(tool_name)}) :
        /\ pc' = "loop"
        /\ took' = IF found THEN "tool" ELSE "unknown_tool"
        /\ tool_calls' = IF found THEN Append(tool_calls, <<tool_name, tool_input>>)
                         ELSE tool_calls
        /\ history' = HistoryAfterDispatch(history, act, found, observation)
        /\ UNCHANGED ret

\* one iteration of the while loop of run, for a think result r
LoopBody(r) ==
    /\ current_step' = current_step + 1
    /\ messages' = BuildMessages(question, history)
    /\ n_think' = n_think + 1
    /\ response_text' = r
    /\ IF Falsy(r)
       THEN /\ NoResponseBranch
            /\ UNCHANGED <<thought, action>>
       ELSE LET th == ParseOutputThought(r)
                act == ParseOutputAction(r)
                parsed == ParseAction(act)
            IN  /\ thought' = th
                /\ action' = act
                /\ IF Falsy(act) THEN NoActionBranch
                   ELSE IF StartsWith(act, FinishKw) THEN FinishBranch(act)
                   ELSE IF SkipTest(parsed[1], parsed[2]) THEN SkipBranch
                   ELSE DispatchBranch(act, parsed[1], parsed[2])
    /\ UNCHANGED <<runs, maxSteps, question, stale>>

\* LoopTest off by one
LoopTestInclusive(step, budget) == step <= budget

\* the while loop's test: current_step < self.maxSteps
LoopTest(step, budget) == step < budget

\* the while loop's test holds: one more iteration
Step ==
    /\ pc = "loop"
    /\ LoopTest(current_step, maxSteps)
    /\ \E r \in ThinkResults : LoopBody(r)
    /\ UNCHANGED <<planVars, llmVars>>

\* the while loop's test fails: the return None after the loop
LoopExit ==
    /\ pc = "loop"
    /\ ~LoopTest(current_step, maxSteps)
    /\ pc' = "returned"
    /\ ret' = None
    /\ took' = "exhausted"
    /\ UNCHANGED <<runs, maxSteps, question, history, current_step, messages,
                   response_text, thought, action, n_think, tool_calls, stale>>
    /\ UNCHANGED <<planVars, llmVars>>

ReActNext ==
    \/ \E q \in Questions : Run(q)
    \/ Step
    \/ LoopExit

\* ------------------------------------------------------- Planner: parsing

\* longest plan a planner response carries or Executor.execute is called with
MaxPlanLen == 3

\* the opening fence (three backquotes and "python") and the closing fence
\* (three backquotes); "^" stands for the backquote character
FencePython == <<"^", "^", "^", "p", "y", "t", "h", "o", "n">>
Fence == <<"^", "^", "^">>

\* text.split(sep)[1]: what lies between the first and the second occurrence of
\* sep (the end of the text when there is no second); None for the IndexError
\* of a text without sep
SplitSecond(text, sep) ==
    LET i == Find(sep, text)
        rest == SubSeq(text, i + Len(sep), Len(text))
        j == Find(sep, rest)
    IN  IF i = 0 THEN None
        ELSE IF j = 0 THEN rest
        ELSE SubSeq(rest, 1, j - 1)

\* text.split(sep)[0]: what precedes the first occurrence of sep, the whole
\* text when there is none
SplitFirst(text, sep) ==
    LET i == Find(sep, text)
    IN  IF i = 0 THEN text ELSE SubSeq(text, 1, i - 1)

\* results of ast.literal_eval that are no list of strings: a raised
\* SyntaxError/ValueError, and a value that is not a list
Malformed == <<"Malformed">>
NotAList == <<"NotAList">>

\* position of the first "'" of text at or after i, 0 when there is none
NextQuote(text, i) ==
    LET qs == {j \in i..Len(text) : text[j] = "'"}
    IN  IF qs = {} THEN 0 ELSE CHOOSE j \in qs : \A k \in qs : j <= k

\* the items of a list display, read from position i on (after its "[");
\* st is "item" where an item or "]" may come next (a "," has just been read),
\* "first" at the start, "after" once an item has been read. Adjacent string
\* literals are one item (implicit concatenation); a trailing comma is allowed.
RECURSIVE ListItems(_, _, _, _)
ListItems(text, i, acc, st) ==
    IF i > Len(text) THEN Malformed
    ELSE IF text[i] = " " THEN ListItems(text, i + 1, acc, st)
    ELSE IF text[i] = "]"
         THEN IF i = Len(text) THEN acc ELSE Malformed
    ELSE IF text[i] = ","
         THEN IF st = "after" THEN ListItems(text, i + 1, acc, "item") ELSE Malformed
    ELSE IF text[i] = "'"
         THEN LET j == NextQuote(text, i + 1)
                  lit == SubSeq(text, i + 1, j - 1)
              IN  IF j = 0 THEN Malformed
                  ELSE IF st = "after"
                       THEN ListItems(text, j + 1,
                                [acc EXCEPT ![Len(acc)] = acc[Len(acc)] \o lit], "after")
                       ELSE ListItems(text, j + 1, Append(acc, lit), "after")
    ELSE Malformed

\* ast.literal_eval on the literals of the modelled responses: a list display
\* of string literals gives the list, "{}" and a lone string literal give a
\* value that is no list, anything else raises
LiteralEval(text) ==
    IF text = <<>> THEN Malformed
    ELSE IF text = <<"{", "}">> THEN NotAList
    ELSE IF text[1] = "'"
         THEN IF Len(text) >= 2 /\ NextQuote(text, 2) = Len(text) THEN NotAList
              ELSE Malformed
    ELSE IF text[1] = "[" THEN ListItems(text, 2, <<>>, "first")
    ELSE Malformed

\* Planner.plan after the think call: the list between the fences, the empty
\* list on every failure
ParsePlan(text) ==
    LET after == SplitSecond(text, FencePython)
        plan_str == Strip(SplitFirst(after, Fence))
        value == LiteralEval(plan_str)
    IN  IF after = None THEN <<>>
        ELSE IF value = Malformed \/ value = NotAList THEN <<>>
        ELSE value

\* ------------------------------------------------------ plan-and-solve inputs

\* step descriptions a plan is made of
PlanItems == {<<"a">>, <<"b">>}

\* the plans Executor.execute may be handed
RECURSIVE SeqsUpTo(_, _)
SeqsUpTo(S, n) ==
    IF n = 0 THEN {<<>>}
    ELSE LET shorter == SeqsUpTo(S, n - 1)
         IN  shorter \cup {Append(p, x) : p \in {q \in shorter : Len(q) = n - 1}, x \in S}

Plans == SeqsUpTo(PlanItems, MaxPlanLen)

\* the list display of a plan, as a model writes it: ['a', 'b']
RECURSIVE ItemsText(_)
ItemsText(p) ==
    IF p = <<>> THEN <<>>
    ELSE <<"'">> \o p[1] \o <<"'">>
         \o (IF Len(p) = 1 THEN <<>> ELSE <<",", " ">> \o ItemsText(Tail(p)))

ListText(p) == <<"[">> \o ItemsText(p) \o <<"]">>

\* literals a planner response may carry: the list displays, and texts that
\* are malformed or no list
PlanLiterals ==
    {ListText(p) : p \in Plans}
    \cup { <<"{", "}">>,
           <<"'", "a", "'">>,
           <<"[", "'", "a", "'">>,
           <<"[", "'", "a", "'", ",", "]">>,
           <<"[", ",", "]">>,
           <<"a">>,
           <<>> }

\* the texts think may return to the Planner: a literal fenced, unfenced,
\* with the closing fence missing, with an opening fence that lacks "python", and
\* fenced inside other text
PlannerTexts ==
    UNION { { FencePython \o <<"\n">> \o l \o <<"\n">> \o Fence,
              l,
              FencePython \o <<"\n">> \o l,
              Fence \o <<"\n">> \o l \o <<"\n">> \o Fence,
              <<"x", "\n">> \o FencePython \o l \o Fence \o <<"\n", "x">> }
            : l \in PlanLiterals }

PlannerResults == PlannerTexts \cup {None}

\* what think may return to the Executor: None, the empty text, texts
ExecutorResults == {None, <<>>, <<"r">>, <<"s", "\n", "t">>}

\* ------------------------------------------------- Executor, PlanAndSolveAgent

\* "x or ''": None coerced to the empty text
OrEmpty(x) == IF Falsy(x) THEN <<>> ELSE x

\* str(n) of a natural number
Digits == <<"0", "1", "2", "3", "4", "5", "6", "7", "8", "9">>

RECURSIVE Str(_)
Str(n) ==
    IF n < 10 THEN <<Digits[n + 1]>>
    ELSE Str(n \div 10) \o <<Digits[(n % 10) + 1]>>

\* the literals of the transcript block and of the empty-history placeholder
\* ("#" stands for the word of "步骤", "=" for that of "结果", "-" for "无")
StepKw == <<"#", " ">>
ResultKw == <<"\n", "=", ":", " ">>
HistoryPlaceholder == <<"-">>

\* HistoryBlock without the result of the step
HistoryBlockNoResult(n, step, result) ==
    StepKw \o Str(n) \o <<":", " ">> \o step \o ResultKw \o <<"\n", "\n">>

\* the block execute appends to history after call number n
HistoryBlock(n, step, result) ==
    StepKw \o Str(n) \o <<":", " ">> \o step \o ResultKw \o result \o <<"\n", "\n">>

\* the history field of the prompt: "history if history else '无'"
PromptHistory(h) == IF h = <<>> THEN HistoryPlaceholder ELSE h

\* the prompt of one step: the template filled with question, plan, history
\* and current step
ExecutorPrompt(q, p, h, step) ==
    [question |-> q, plan |-> p, history |-> PromptHistory(h), current_step |-> step]

\* the entry of Executor.execute: history = ""
EnterExecute(caller, q, p) ==
    /\ ps_pc' = "executing"
    /\ ps_caller' = caller
    /\ ps_question' = q
    /\ plan' = p
    /\ exec_i' = 0
    /\ exec_history' = <<>>
    /\ exec_response' = None
    /\ exec_prompts' = <<>>
    /\ exec_results' = <<>>
    /\ final_answer' = None
    /\ ps_ret' = None

\* NotPlan that never declines
NotPlanNever(p) == FALSE

\* "not plan" of PlanAndSolveAgent.run: the plan is the empty list
NotPlan(p) == p = <<>>

\* PlanAndSolveAgent.run up to the call of execute: Planner.plan (one think
\* call, r its result), then "if not plan: return"
AgentRun(q, r) ==
    /\ ps_pc = "idle"
    /\ planner_text' = OrEmpty(r)
    /\ LET p == ParsePlan(OrEmpty(r))
       IN  IF NotPlan(p)
           THEN /\ ps_pc' = "returned"
                /\ ps_caller' = "agent"
                /\ ps_question' = q
                /\ plan' = p
                /\ ps_ret' = None
                /\ UNCHANGED <<exec_i, exec_history, exec_response, exec_prompts,
                               exec_results, final_answer>>
           ELSE EnterExecute("agent", q, p)
    /\ UNCHANGED <<reactVars, llmVars>>

\* Executor.execute called by another caller than PlanAndSolveAgent.run
DirectExecute(q, p) ==
    /\ ps_pc = "idle"
    /\ EnterExecute("direct", q, p)
    /\ UNCHANGED planner_text
    /\ UNCHANGED <<reactVars, llmVars>>

\* StepResponse without the "or ''"
StepResponseRaw(r) == r

\* the response of a step as execute keeps it: "think(...) or ''"
StepResponse(r) == OrEmpty(r)

\* one iteration of execute's for loop, r the result of its think call
ExecStep(r) ==
    /\ ps_pc = "executing"
    /\ exec_i < Len(plan)
    /\ LET step == plan[exec_i + 1]
           response == StepResponse(r)
       IN  /\ exec_prompts' =
                 Append(exec_prompts,
                        ExecutorPrompt(ps_question, plan, exec_history, step))
           /\ exec_results' = Append(exec_results, r)
           /\ exec_response' = response
           /\ exec_history' = exec_history \o HistoryBlock(exec_i + 1, step, response)
           /\ exec_i' = exec_i + 1
    /\ UNCHANGED <<ps_pc, ps_caller, ps_question, planner_text, plan,
                   final_answer, ps_ret>>
    /\ UNCHANGED <<reactVars, llmVars>>

\* what PlanAndSolveAgent.run hands back after execute: it prints final_answer
\* and ends without a return statement
AgentReturn(answer) == None

\* the end of execute's for loop: "final_answer = response_text; return
\* final_answer" (UnboundLocalError when the loop never ran), and for
\* PlanAndSolveAgent.run the end of run
ExecReturn ==
    /\ ps_pc = "executing"
    /\ exec_i = Len(plan)
    /\ IF plan = <<>>
       THEN /\ ps_pc' = "raised"
            /\ UNCHANGED <<final_answer, ps_ret>>
       ELSE /\ ps_pc' = "returned"
            /\ final_answer' = exec_response
            /\ ps_ret' = IF ps_caller = "agent" THEN AgentReturn(exec_response)
                         ELSE exec_response
    /\ UNCHANGED <<ps_caller, ps_question, planner_text, plan, exec_i,
                   exec_history, exec_response, exec_prompts, exec_results>>
    /\ UNCHANGED <<reactVars, llmVars>>

PlanNext ==
    \/ \E q \in Questions : \E r \in PlannerResults : AgentRun(q, r)
    \/ \E q \in Questions : \E p \in Plans : DirectExecute(q, p)
    \/ \E r \in ExecutorResults : ExecStep(r)
    \/ ExecReturn

\* ------------------------------------------------------------ specifications

\* ------------------------------------------- HelloAgentsLLM: construction

\* "x or y"
Or(x, y) == IF Falsy(x) THEN y ELSE x

\* os.getenv(name, default): the default when the variable is unset (None)
GetEnvDefault(value, default) == IF value = None THEN default ELSE value

\* the default of os.getenv("LLM_TIMEOUT", "60")
DefaultTimeoutText == <<"6", "0">>

\* the number a digit character stands for
DigitValue(c) == (CHOOSE i \in 1..Len(Digits) : Digits[i] = c) - 1

\* the number a non-empty text of digits stands for
RECURSIVE DigitsValue(_)
DigitsValue(s) ==
    IF Len(s) = 1 THEN DigitValue(s[1])
    ELSE DigitsValue(SubSeq(s, 1, Len(s) - 1)) * Len(Digits) + DigitValue(s[Len(s)])

\* int(text) for texts without sign and underscore: <<n>> for the integer n of a
\* text that is digits within whitespace, <<>> for the ValueError of any other
IntOf(text) ==
    LET s == Strip(text)
    IN  IF s # <<>> /\ \A i \in 1..Len(s) : \E d \in 1..Len(Digits) : Digits[d] = s[i]
        THEN <<DigitsValue(s)>>
        ELSE <<>>

\* "all([model, apiKey, baseUrl])"
All(values) == \A i \in 1..Len(values) : ~Falsy(values[i])

\* the arguments of __init__; timeout is <<>> for None and <<n>> for the integer n
ArgTexts == {None, <<>>, <<"m">>}
TimeoutArgs == {<<>>, <<0>>, <<5>>}
Args == [model : ArgTexts, apiKey : ArgTexts, baseUrl : ArgTexts, timeout : TimeoutArgs]
NoArgs == [model |-> None, apiKey |-> None, baseUrl |-> None, timeout |-> <<>>]

\* the four environment variables __init__ reads; None for an unset variable
EnvTexts == {None, <<>>, <<"e">>}
EnvTimeouts == {None, <<>>, <<"7">>, <<" ", "1", "2">>, <<"a">>}
Envs == [LLM_MODEL_ID : EnvTexts, LLM_API_KEY : EnvTexts, LLM_BASE_URL : EnvTexts,
         LLM_TIMEOUT : EnvTimeouts]
NoEnv == [LLM_MODEL_ID |-> None, LLM_API_KEY |-> None, LLM_BASE_URL |-> None,
          LLM_TIMEOUT |-> None]

\* "timeout or int(os.getenv('LLM_TIMEOUT', '60'))": <<n>>, <<>> when int raises
ResolveTimeout(timeout, env_timeout) ==
    IF timeout # <<>> /\ timeout[1] # 0 THEN timeout
    ELSE IntOf(GetEnvDefault(env_timeout, DefaultTimeoutText))

\* HelloAgentsLLM.__init__ called with the arguments a in the environment e
Construct(a, e) ==
    LET model == Or(a.model, e.LLM_MODEL_ID)
        apiKey == Or(a.apiKey, e.LLM_API_KEY)
        baseUrl == Or(a.baseUrl, e.LLM_BASE_URL)
        timeout == ResolveTimeout(a.timeout, e.LLM_TIMEOUT)
    IN  /\ c_pc = "idle"
        /\ c_args' = a
        /\ c_env' = e
        /\ self_model' = model
        /\ IF timeout = <<>>
           THEN /\ c_pc' = "raised"
                /\ c_error' = "int"
                /\ UNCHANGED <<client_api_key, client_base_url, client_timeout>>
           ELSE IF ~All(<<model, apiKey, baseUrl>>)
           THEN /\ c_pc' = "raised"
                /\ c_error' = "config"
                /\ UNCHANGED <<client_api_key, client_base_url, client_timeout>>
           ELSE /\ c_pc' = "constructed"
                /\ c_error' = "none"
                /\ client_api_key' = apiKey
                /\ client_base_url' = baseUrl
                /\ client_timeout' = timeout[1]
        /\ UNCHANGED <<reactVars, planVars, thinkVars>>

ConstructNext == \E a \in Args, e \in Envs : Construct(a, e)

\* ------------------------------------------------ HelloAgentsLLM: think

\* most chunks a stream delivers
MaxChunks == 3

\* what delta.content of a chunk is: None, the empty text, a text
DeltaContents == {None, <<>>, <<"a">>, <<"b", "\n">>}

\* "chunk.choices[0].delta.content or ''"
ContentOrEmpty(c) == IF Falsy(c) THEN <<>> ELSE c

\* Join that keeps the last part only
JoinLast(parts) == IF parts = <<>> THEN <<>> ELSE parts[Len(parts)]

\* ''.join(parts)
RECURSIVE Join(_)
Join(parts) ==
    IF parts = <<>> THEN <<>> ELSE Head(parts) \o Join(Tail(parts))

\* think is called: the try block is entered
ThinkCall ==
    /\ t_pc \in {"idle", "returned"}
    /\ t_pc' = "request"
    /\ collected_content' = <<>>
    /\ t_received' = <<>>
    /\ t_failure' = "none"
    /\ t_ret' = None
    /\ UNCHANGED <<reactVars, planVars, ctorVars>>

\* "except Exception: ... return None"
ExceptBranch(failure) ==
    /\ t_pc' = "returned"
    /\ t_ret' = None
    /\ t_failure' = failure
    /\ UNCHANGED <<collected_content, t_received>>

\* chat.completions.create raises
CreateFails ==
    /\ t_pc = "request"
    /\ ExceptBranch("request")
    /\ UNCHANGED <<reactVars, planVars, ctorVars>>

\* chat.completions.create returns the stream; "collected_content = []"
CreateSucceeds ==
    /\ t_pc = "request"
    /\ t_pc' = "streaming"
    /\ collected_content' = <<>>
    /\ UNCHANGED <<t_received, t_failure, t_ret>>
    /\ UNCHANGED <<reactVars, planVars, ctorVars>>

\* one iteration of the for loop, for a chunk with delta.content c
ChunkArrives(c) ==
    /\ t_pc = "streaming"
    /\ Len(t_received) < MaxChunks
    /\ collected_content' = Append(collected_content, ContentOrEmpty(c))
    /\ t_received' = Append(t_received, c)
    /\ UNCHANGED <<t_pc, t_failure, t_ret>>
    /\ UNCHANGED <<reactVars, planVars, ctorVars>>

\* a chunk with an empty choices list: "chunk.choices[0]" raises IndexError
ChunkWithoutChoices ==
    /\ t_pc = "streaming"
    /\ Len(t_received) < MaxChunks
    /\ ExceptBranch("chunk")
    /\ UNCHANGED <<reactVars, planVars, ctorVars>>

\* the iteration over the stream raises
StreamFails ==
    /\ t_pc = "streaming"
    /\ ExceptBranch("stream")
    /\ UNCHANGED <<reactVars, planVars, ctorVars>>

\* the stream is exhausted: "return ''.join(collected_content)"
StreamEnds ==
    /\ t_pc = "streaming"
    /\ t_pc' = "returned"
    /\ t_ret' = Join(collected_content)
    /\ UNCHANGED <<collected_content, t_received, t_failure>>
    /\ UNCHANGED <<reactVars, planVars, ctorVars>>

ThinkNext ==
    \/ ThinkCall
    \/ CreateFails
    \/ CreateSucceeds
    \/ \E c \in DeltaContents : ChunkArrives(c)
    \/ ChunkWithoutChoices
    \/ StreamFails
    \/ StreamEnds

vars == <<reactVars, planVars, llmVars>>

\* ReActAgent.__init__ with a step budget of n; no call of the plan-and-solve
\* classes or of HelloAgentsLLM is under way
InitWith(n) ==
    /\ pc = "idle"
    /\ runs = 0
    /\ maxSteps = n
    /\ question = None
    /\ history = <<>>
    /\ current_step = 0
    /\ messages = <<>>
    /\ response_text = None
    /\ thought = None
    /\ action = None
    /\ ret = None
    /\ took = "none"
    /\ n_think = 0
    /\ tool_calls = <<>>
    /\ stale = FALSE
    /\ ps_pc = "idle"
    /\ ps_caller = "none"
    /\ ps_question = None
    /\ planner_text = None
    /\ plan = <<>>
    /\ exec_i = 0
    /\ exec_history = <<>>
    /\ exec_response = None
    /\ exec_prompts = <<>>
    /\ exec_results = <<>>
    /\ final_answer = None
    /\ ps_ret = None
    /\ c_pc = "idle"
    /\ c_args = NoArgs
    /\ c_env = NoEnv
    /\ c_error = "none"
    /\ self_model = None
    /\ client_api_key = None
    /\ client_base_url = None
    /\ client_timeout = 0
    /\ t_pc = "idle"
    /\ collected_content = <<>>
    /\ t_received = <<>>
    /\ t_failure = "none"
    /\ t_ret = None

\* an agent constructed with any step budget up to the bound
InitReAct == \E n \in 0..MaxSteps : InitWith(n)

\* the plan-and-solve classes take no step budget
InitPlan == InitWith(0)

\* a ReActAgent instance and the run calls made on it
SpecReAct == InitReAct /\ [][ReActNext]_vars

\* one call of PlanAndSolveAgent.run or of Executor.execute
SpecPlan == InitPlan /\ [][PlanNext]_vars

\* before any HelloAgentsLLM is constructed
InitConstruct == InitWith(0)

\* one instantiation of HelloAgentsLLM
SpecConstruct == InitConstruct /\ [][ConstructNext]_vars

\* a constructed HelloAgentsLLM before its first think call
InitThink == InitWith(0)

\* the think calls made on one HelloAgentsLLM
SpecThink == InitThink /\ [][ThinkNext]_vars

\* ------------------------------------------------- properties of ReActAgent

\* a transition that is one iteration of run's loop (one think call)
IsStep == pc = "loop" /\ n_think' = n_think + 1

\* the text has the form Finish[X]
IsFinishForm(a) ==
    /\ a # None
    /\ StartsWith(a, FinishKw \o <<"[">>)
    /\ a[Len(a)] = "]"

\* the X of a text of the form Finish[X]
FinishPayload(a) == SubSeq(a, Len(FinishKw) + 2, Len(a) - 1)

\* the text decomposes to name[input], both non-empty, and is no Finish action
IsToolForm(a) ==
    /\ ~Falsy(a)
    /\ ~StartsWith(a, FinishKw)
    /\ ~Falsy(ParseAction(a)[1])
    /\ ~Falsy(ParseAction(a)[2])

\* some line of the text begins with "Action:"
HasActionLine(text) ==
    \E i \in 1..Len(text) :
        /\ i = 1 \/ text[i - 1] = "\n"
        /\ MatchAt(<<"A", "c", "t", "i", "o", "n", ":">>, text, i)

\* C1: a step whose parsed action is Finish[X] ends the run at that step and
\* returns exactly X; it invokes no tool, leaves history alone and makes no
\* model call beyond the one of the step.
C1_FinishReturnsPayload ==
    [][ (IsStep /\ ~Falsy(response_text') /\ IsFinishForm(action'))
        => /\ pc' = "returned"
           /\ ret' = FinishPayload(action')
           /\ history' = history
           /\ tool_calls' = tool_calls
           /\ current_step' = current_step + 1 ]_vars

\* C1 witness: a run that invoked a tool and then returned the payload of
\* Finish[s[q]], a payload that itself looks like a tool call
C1_Witness ==
    /\ pc = "returned"
    /\ action = FinishKw \o <<"[", "s", "[", "q", "]", "]">>
    /\ ret = <<"s", "[", "q", "]">>
    /\ Len(tool_calls) = 1

\* C2: a step whose action decomposes to name[input] with an unregistered name
\* appends the Action line and the fixed error Observation line to history,
\* consumes one budget slot and does not end the run.
C2_UnknownToolAppended ==
    [][ (IsStep /\ ~Falsy(response_text') /\ IsToolForm(action')
         /\ ParseAction(action')[1] \notin RegisteredTools)
        => /\ history' = history \o
                <<ActionKw \o action',
                  ObservationKw \o NotFoundObservation(ParseAction(action')[1])>>
           /\ current_step' = current_step + 1
           /\ pc' = "loop" ]_vars

\* C3: no failure leaves run as a raised fault: every run ends by returning.
C3_NothingRaised == pc # "raised"

\* C5: a run makes at most maxSteps model calls (none when maxSteps = 0), every
\* iteration that stays in the loop advances current_step towards maxSteps, and
\* once maxSteps steps are consumed the loop is left returning None without
\* another model call.
C5_StepBudget ==
    /\ [](/\ n_think <= maxSteps
          /\ n_think = current_step
          /\ (maxSteps = 0 => n_think = 0))
    /\ [][ /\ (pc = "loop" /\ pc' = "loop")
              => (current_step' = current_step + 1 /\ current_step' <= maxSteps)
           /\ (pc = "loop" /\ current_step >= maxSteps)
              => (pc' = "returned" /\ ret' = None /\ n_think' = n_think) ]_vars

\* C5 witness: the whole budget was spent on tool steps and the run returned None
C5_Witness ==
    /\ pc = "returned"
    /\ took = "exhausted"
    /\ maxSteps = MaxSteps
    /\ n_think = maxSteps
    /\ Len(tool_calls) = maxSteps
    /\ ret = None

\* C6: history holds exactly two entries per tool invocation made so far in the
\* run, the Action line followed by its Observation line, and a step with no
\* response, no action, a Finish action or an undecomposable action appends none.
C6_HistoryTwoPerToolCall ==
    /\ [](/\ Len(history) = 2 * Len(tool_calls)
          /\ \A i \in 1..Len(tool_calls) :
                /\ StartsWith(history[2 * i - 1], ActionKw)
                /\ StartsWith(history[2 * i], ObservationKw))
    /\ [][ (IsStep /\ (\/ Falsy(response_text')
                       \/ Falsy(action')
                       \/ StartsWith(action', FinishKw)
                       \/ ParseAction(action') = <<None, None>>))
           => history' = history ]_vars

\* C6 witness: two tool invocations, then a step with an undecomposable action
C6_Witness ==
    /\ Len(tool_calls) = 2
    /\ Len(history) = 4
    /\ took = "skip"
    /\ action = <<"s">>

\* C7: a step where think returns the no-result sentinel ends the run returning
\* None with history and the tool log as they were; on step 1 history is empty.
C7_NoResultAborts ==
    /\ [][ (IsStep /\ response_text' = None)
           => /\ pc' = "returned"
              /\ ret' = None
              /\ history' = history
              /\ tool_calls' = tool_calls ]_vars
    /\ []((pc = "returned" /\ n_think = 1 /\ response_text = None) => history = <<>>)

\* C7 witness: the sentinel arrived on step 2, after a tool step
C7_Witness ==
    /\ pc = "returned"
    /\ n_think = 2
    /\ response_text = None
    /\ Len(history) = 2
    /\ ret = None

\* C8: a step whose response has no line beginning with "Action:" aborts the run
\* returning None, with no tool invoked and history unchanged.
C8_NoActionLineAborts ==
    [][ (IsStep /\ ~Falsy(response_text') /\ ~HasActionLine(response_text'))
        => /\ pc' = "returned"
           /\ ret' = None
           /\ history' = history
           /\ tool_calls' = tool_calls ]_vars

\* ------------------------------------- properties of the plan-and-solve classes

\* the pieces occur in text from position i on, each whole, one after the
\* other in the order given (each taken at its first occurrence)
RECURSIVE ContainsInOrder(_, _, _)
ContainsInOrder(text, i, pieces) ==
    IF pieces = <<>> THEN TRUE
    ELSE LET j == Find(pieces[1], SubSeq(text, i, Len(text)))
         IN  /\ pieces[1] = <<>> \/ j # 0
             /\ ContainsInOrder(text,
                                IF pieces[1] = <<>> THEN i ELSE i + j - 1 + Len(pieces[1]),
                                Tail(pieces))

\* step description and recorded result of the calls 1..n, in call order
RECURSIVE EarlierPieces(_)
EarlierPieces(n) ==
    IF n = 0 THEN <<>>
    ELSE EarlierPieces(n - 1) \o <<plan[n], OrEmpty(exec_results[n])>>

\* C4: PlanAndSolveAgent.run hands its caller the Executor's answer when the
\* plan is not empty, and None/empty when planning failed.
C4_AgentReturnsAnswer ==
    (ps_caller = "agent" /\ ps_pc = "returned")
    => /\ (plan # <<>> /\ ~Falsy(final_answer)) => ps_ret = final_answer
       /\ plan = <<>> => Falsy(ps_ret)

\* C9: execute makes one model call per plan item, in plan order, n calls for
\* a plan of n items; the prompt of call 1 carries the empty-history
\* placeholder and the prompt of call k > 1 contains, in order and verbatim,
\* the step description and the result of each of the calls 1..k-1.
C9_OneCallPerItemCumulative ==
    (ps_pc \in {"executing", "returned"} /\ plan # <<>>)
    => /\ Len(exec_prompts) = exec_i
       /\ Len(exec_results) = exec_i
       /\ exec_i <= Len(plan)
       /\ ps_pc = "returned" => exec_i = Len(plan)
       /\ \A k \in 1..Len(exec_prompts) :
            /\ exec_prompts[k].current_step = plan[k]
            /\ exec_prompts[k].plan = plan
            /\ k = 1 => exec_prompts[k].history = HistoryPlaceholder
            /\ k > 1 => ContainsInOrder(exec_prompts[k].history, 1, EarlierPieces(k - 1))

\* C9 witness: a plan of three items executed with two different non-empty
\* results before the third call
C9_Witness ==
    /\ ps_pc = "returned"
    /\ ps_caller = "agent"
    /\ Len(plan) = 3
    /\ Len(exec_prompts) = 3
    /\ exec_results[1] = <<"r">>
    /\ exec_results[2] = <<"s", "\n", "t">>

\* C10: for a non-empty plan execute returns the result of the call made for
\* the last plan item, a no-result call counting as the empty text; a no-result
\* call at any step does not stop the loop.
C10_ReturnsLastResult ==
    (ps_pc = "returned" /\ plan # <<>>)
    => /\ Len(exec_results) = Len(plan)
       /\ final_answer = OrEmpty(exec_results[Len(plan)])
       /\ exec_results[Len(plan)] = None => final_answer = <<>>
       /\ ps_caller = "direct" => ps_ret = final_answer

\* C10 witness: the first call gave a text and the last call gave no result, so
\* the answer is the empty text and not the earlier result
C10_Witness ==
    /\ ps_pc = "returned"
    /\ Len(plan) = 2
    /\ exec_results = <<<<"r">>, None>>
    /\ final_answer = <<>>

\* position of the first closing fence of text after an opening fence at
\* position open, 0 when there is none
ClosingFenceAfter(text, open) ==
    LET from == open + Len(FencePython)
        hits == {j \in from..Len(text) : MatchAt(Fence, text, j)}
    IN  IF hits = {} THEN 0 ELSE CHOOSE j \in hits : \A k \in hits : j <= k

\* what Planner.plan is to return for a response: the list written between the
\* opening fence and the first closing fence when both fences are there and
\* the text between them is a well-formed list, the empty list otherwise
FencedListOf(text) ==
    LET open == Find(FencePython, text)
        close == IF open = 0 THEN 0 ELSE ClosingFenceAfter(text, open)
        value == LiteralEval(Strip(SubSeq(text, open + Len(FencePython), close - 1)))
    IN  IF open = 0 \/ close = 0 THEN <<>>
        ELSE IF value = Malformed \/ value = NotAList THEN <<>>
        ELSE value

\* C11: Planner.plan returns the parsed list when the response has an opening
\* fence, a closing fence and a well-formed list between the opening and the
\* first closing fence, and the empty list in every other case.
C11_PlanOnlyFromFencedList ==
    (ps_caller = "agent") => plan = FencedListOf(planner_text)

\* C12: when the Planner returns an empty plan, PlanAndSolveAgent.run returns
\* without entering execute, so no model call follows the planning call; run
\* never has execute under way with an empty plan.
C12_EmptyPlanNotExecuted ==
    (ps_caller = "agent")
    => /\ plan = <<>> => (/\ ps_pc = "returned"
                          /\ exec_prompts = <<>>
                          /\ exec_results = <<>>
                          /\ exec_i = 0
                          /\ final_answer = None)
       /\ ps_pc \in {"executing", "raised"} => plan # <<>>
       /\ ps_pc # "raised"

\* C12 witness: the planner answered with a fenced text that is no list, and
\* run returned with no call of execute
C12_Witness ==
    /\ ps_caller = "agent"
    /\ ps_pc = "returned"
    /\ plan = <<>>
    /\ planner_text = FencePython \o <<"\n", "{", "}", "\n">> \o Fence
    /\ exec_prompts = <<>>

\* a is a prefix of b
IsPrefix(a, b) == Len(a) <= Len(b) /\ SubSeq(b, 1, Len(a)) = a

\* C13: every run starts with an empty history, whatever an earlier run on the
\* same instance left, so the first prompt of a run carries no earlier entry;
\* within a run history only grows at its end.
C13_HistoryResetAndAppendOnly ==
    /\ [][ (pc # "loop" /\ pc' = "loop") => history' = <<>> ]_vars
    /\ [][ pc = "loop" => IsPrefix(history, history') ]_vars
    /\ []((pc = "loop" /\ n_think = 0) => history = <<>>)
    /\ [](n_think = 1 => messages[1].content.history = <<>>)

\* C13 witness: a second run, called when the first had left entries in
\* history, that has itself invoked a tool on its second step
C13_Witness ==
    /\ runs = 2
    /\ stale
    /\ n_think = 2
    /\ Len(history) = 2

\* the text has the shape name[input]: one or more word characters, then "[",
\* then a "]" somewhere after it
HasCallShape(a) ==
    \E n \in 1..Len(a) :
        /\ \A i \in 1..n : a[i] \in WordChars
        /\ n + 1 <= Len(a) /\ a[n + 1] = "["
        /\ \E j \in (n + 2)..Len(a) : a[j] = "]"

RECURSIVE EntryOffset(_, _)
EntryOffset(h, i) ==
    IF i = 1 THEN 0 ELSE EntryOffset(h, i - 1) + Len(h[i - 1]) + 1

\* text is the entries of h in order, with one newline between neighbours and
\* nothing else
IsJoinOf(text, h) ==
    IF h = <<>> THEN text = <<>>
    ELSE /\ Len(text) = EntryOffset(h, Len(h)) + Len(h[Len(h)])
         /\ \A i \in 1..Len(h) :
              /\ SubSeq(text, EntryOffset(h, i) + 1, EntryOffset(h, i) + Len(h[i])) = h[i]
              /\ i > 1 => text[EntryOffset(h, i)] = "\n"

\* C17: every step hands think a list of exactly one message, of role user,
\* whose content holds the tool listing, the question and the whole history as
\* it stands at that step, joined by newlines.
C17_FreshSinglePrompt ==
    [][ IsStep
        => /\ Len(messages') = 1
           /\ messages'[1].role = "user"
           /\ messages'[1].content.tools = GetAvailableTools
           /\ messages'[1].content.question = question
           /\ IsJoinOf(messages'[1].content.history, history) ]_vars

\* C17 witness: the prompt of step 3 holds the four entries of two tool steps
C17_Witness ==
    /\ n_think = 3
    /\ Len(tool_calls) = 2
    /\ Len(messages) = 1
    /\ messages[1].content.history =
         ActionKw \o <<"s", "[", "q", "]", "\n">> \o ObservationKw \o <<"o", "\n">>
         \o ActionKw \o <<"s", "[", "q", "]", "\n">> \o ObservationKw \o <<"o", "]">>

\* the positions of text at which a line begins with prefix
LineStarts(prefix, text) ==
    {i \in 1..Len(text) : (i = 1 \/ text[i - 1] = "\n") /\ MatchAt(prefix, text, i)}

\* the trimmed remainder of the first line of text that begins with prefix, None
\* when no line does
FirstLineField(prefix, text) ==
    LET starts == LineStarts(prefix, text)
        first == CHOOSE i \in starts : \A j \in starts : i <= j
    IN  IF starts = {} THEN None
        ELSE Strip(RestOfLine(text, first + Len(prefix)))

\* C18: the action parsed from a response is the trimmed remainder of its first
\* line beginning with "Action:", the thought that of its first line beginning
\* with "Thought:", each None when no line begins with the prefix.
C18_FirstPrefixedLine ==
    [][ (IsStep /\ ~Falsy(response_text'))
        => /\ action' = FirstLineField(<<"A", "c", "t", "i", "o", "n", ":">>, response_text')
           /\ thought' = FirstLineField(<<"T", "h", "o", "u", "g", "h", "t", ":">>,
                                        response_text') ]_vars

\* C19: run has a value other than None to return only where the step's parsed
\* action begins with Finish; a run ended by a no-result response, by a missing
\* action or by the exhausted budget returns None; the value returned is no entry
\* of history and not the model's text.
C19_AnswerOnlyFromFinish ==
    /\ [](ret # None
          => /\ pc = "returned"
             /\ took = "finish"
             /\ StartsWith(action, FinishKw)
             /\ ret # response_text
             /\ \A i \in 1..Len(history) : history[i] # ret)
    /\ []((pc = "returned" /\ took \in {"no_response", "no_action", "exhausted"})
          => ret = None)
    /\ [](pc = "returned" => took \in {"no_response", "no_action", "exhausted", "finish"})

\* C19 witness: a run that invoked a tool and then ended on a response without an
\* action returned None
C19_Witness ==
    /\ pc = "returned"
    /\ took = "no_action"
    /\ ~Falsy(response_text)
    /\ Len(history) = 2
    /\ ret = None

\* C20: a step whose action is name[] with a registered name invokes no tool,
\* leaves history unchanged, consumes one budget slot and leaves the run in its
\* loop; a step invokes at most one tool, and every tool invoked was given a
\* non-empty input.
C20_EmptyPayloadSkipped ==
    /\ [][ (IsStep /\ ~Falsy(response_text')
            /\ \E name \in RegisteredTools : action' = name \o <<"[", "]">>)
           => /\ pc' = "loop"
              /\ current_step' = current_step + 1
              /\ history' = history
              /\ tool_calls' = tool_calls ]_vars
    /\ [][ IsStep => Len(tool_calls') <= Len(tool_calls) + 1 ]_vars
    /\ [](\A i \in 1..Len(tool_calls) : tool_calls[i][2] # <<>> /\ tool_calls[i][2] # None)

\* C20 witness: step 2 parsed "s[]" after a tool step; the one tool call of the
\* run is that of step 1
C20_Witness ==
    /\ took = "skip"
    /\ action = <<"s", "[", "]">>
    /\ pc = "loop"
    /\ current_step = 2
    /\ Len(tool_calls) = 1
    /\ Len(history) = 2

\* ------------------------------------------- properties of HelloAgentsLLM

\* the texts among the contents received (a content of None is no fragment)
Fragments(received) == SelectSeq(received, LAMBDA c : c # None)

\* where part i of parts begins in their concatenation (0-based)
RECURSIVE PartOffset(_, _)
PartOffset(parts, i) ==
    IF i = 1 THEN 0 ELSE PartOffset(parts, i - 1) + Len(parts[i - 1])

\* text is the parts one after the other, in order, and nothing else
IsConcatOf(text, parts) ==
    IF parts = <<>> THEN text = <<>>
    ELSE /\ text # None
         /\ Len(text) = PartOffset(parts, Len(parts)) + Len(parts[Len(parts)])
         /\ \A i \in 1..Len(parts) :
              SubSeq(text, PartOffset(parts, i) + 1, PartOffset(parts, i) + Len(parts[i]))
                = parts[i]

\* C14: think always returns: None when the request, the stream or a chunk
\* failed, whatever was received before, and the concatenation of the received
\* fragments in arrival order when the stream ended.
C14_ThinkNeverRaises ==
    /\ [](t_pc \in {"idle", "request", "streaming", "returned"})
    /\ []((t_pc = "returned" /\ t_failure # "none") => t_ret = None)
    /\ []((t_pc = "returned" /\ t_failure = "none")
          => /\ t_ret # None
             /\ IsConcatOf(t_ret, Fragments(t_received)))
    /\ [][ (t_pc \in {"request", "streaming"} /\ t_failure' # "none")
           => t_pc' = "returned" ]_vars

\* C14 witness: a stream of three chunks, the second without text, ended and
\* think returned the two fragments concatenated
C14_Witness ==
    /\ t_pc = "returned"
    /\ t_failure = "none"
    /\ t_received = << <<"b", "\n">>, None, <<"a">> >>
    /\ t_ret = <<"b", "\n", "a">>

\* C15: __init__ raises exactly when one of model, credential and endpoint is
\* given neither by its argument nor by its environment variable; otherwise the
\* instance holds for each the argument, or else the environment's value, and
\* the timeout is 60 when neither argument nor environment sets one.
C15_ConstructionFailsIffUnresolved ==
    [](c_pc \in {"constructed", "raised"}
       => LET unresolved ==
                \/ Falsy(c_args.model) /\ Falsy(c_env.LLM_MODEL_ID)
                \/ Falsy(c_args.apiKey) /\ Falsy(c_env.LLM_API_KEY)
                \/ Falsy(c_args.baseUrl) /\ Falsy(c_env.LLM_BASE_URL)
          IN  /\ (c_pc = "raised") <=> unresolved
              /\ c_pc = "constructed"
                 => /\ self_model = IF Falsy(c_args.model) THEN c_env.LLM_MODEL_ID
                                    ELSE c_args.model
                    /\ client_api_key = IF Falsy(c_args.apiKey) THEN c_env.LLM_API_KEY
                                        ELSE c_args.apiKey
                    /\ client_base_url = IF Falsy(c_args.baseUrl) THEN c_env.LLM_BASE_URL
                                         ELSE c_args.baseUrl
                    /\ (c_args.timeout = <<>> /\ c_env.LLM_TIMEOUT = None)
                       => client_timeout = 60)

====
